---------------------------- MODULE Spec2Model ----------------------------
(***************************************************************************)
(* The text-command dispatch of DBF.js (src/dbf.js, class DiscordBot):     *)
(* __message with its prefix selection, tokenization, guard chain,         *)
(* cooldown records and eviction timers, and the invocation of the         *)
(* command handler.                                                        *)
(*                                                                         *)
(* JavaScript strings are sequences of one-character strings, so that      *)
(* startsWith, slice, trim, split and toLowerCase are computed as the code *)
(* computes them.  Times are milliseconds, as Date.now() gives them.       *)
(***************************************************************************)
EXTENDS Integers, Sequences, FiniteSets, Bags, TLC

VARIABLES
    prefixes,    \* this.data.prefixes (Undefined when not configured)
    owners,      \* this.data.owners (Undefined when not configured)
    blockedUsers,\* this.data.blockedUsers (Undefined when not configured)
    responces,   \* this.data.responces: catalog key -> list of templates
    directory,   \* the commands directory: whether __ready has read it, whether
                 \* it was found (client.commands exists only then), and the
                 \* command files it read, in directory order
    commands,    \* client.commands: name -> command descriptor
    cooldowns,   \* client.cooldowns: command name -> (user id -> timestamp)
    timers,      \* pending setTimeout callbacks: bag of [name, user, due]
    clock,       \* the time Date.now() returns, in milliseconds
    nEvents,     \* number of messageCreate events delivered so far
    inflight,    \* promises of handlers of earlier events, not yet settled
    last,        \* the last delivered event: its message and what dispatch did
    tables,      \* client.slash, client.buttons, client.selects
    globals,     \* the names defined on the global object
    interaction, \* the last interactionCreate event and what __interaction did
    rendered     \* the last call of a responder by the code that owns the bot

vars == <<prefixes, owners, blockedUsers, responces, directory, commands, cooldowns,
          timers, clock, nEvents, inflight, last, tables, globals, interaction,
          rendered>>

\* the state of the interaction dispatch and of direct responder calls
interactionVars == <<tables, globals, interaction, rendered>>

\* the state of the text dispatch, but the catalog
textVars == <<prefixes, owners, blockedUsers, directory, commands, cooldowns,
              timers, clock, nEvents, inflight, last>>

-----------------------------------------------------------------------------
(* Bounds of the model *)

\* events delivered in one behaviour of Spec
MaxEvents == 3
\* events delivered in one behaviour of SpecGuards
MaxGuardEvents == 2
\* events delivered in one behaviour of SpecParse
MaxParseEvents == 1
\* the clock stops advancing here (milliseconds)
MaxTime == 2000
\* the clock advances in steps of this many milliseconds
TickMs == 500
\* largest number of positional arguments in a message of the guard family
MaxArgs == 3
\* longest raw message text of the parse family
MaxLen == 4
\* most command files in the commands directory of SpecLoad
MaxFiles == 2
\* events delivered in one behaviour of SpecLoad
MaxLoadEvents == 1
\* events delivered in one behaviour of SpecBlock
MaxBlockEvents == 2
\* events delivered in one behaviour of SpecContext
MaxContextEvents == 2
\* events delivered in one behaviour of SpecRender
MaxRenderEvents == 1
\* events delivered in one behaviour of SpecFormat
MaxFormatEvents == 1
\* the longest cooldown a command of SpecFormat declares, in seconds
MaxCooldown == 25
\* interactionCreate events delivered in the runs of the interaction dispatch
MaxInteractions == 1
\* direct calls of a responder in the runs of the responders
MaxCalls == 1
\* messageCreate events delivered in the runs with incomplete catalogs
MaxCatalogEvents == 2
\* messageCreate events delivered in the runs that end with the timers
MaxLiveEvents == 2

-----------------------------------------------------------------------------
(* JavaScript values *)

\* `undefined` for a configuration field that holds a list
Undefined == <<"undefined">>
\* `false`, the initial value of `var prefix`
False == <<"false">>
\* `null`, what channel.permissionsFor returns for an unknown member
Null == {"null"}

\* String.prototype.startsWith
startsWith(content, p) ==
    /\ Len(p) <= Len(content)
    /\ SubSeq(content, 1, Len(p)) = p

\* String.prototype.slice(n), 0 <= n
slice(content, n) == SubSeq(content, n + 1, Len(content))

\* the characters String.prototype.trim removes
WhiteSpace == {" ", "\t", "\n"}

RECURSIVE trimStart(_)
trimStart(str) ==
    IF str # <<>> /\ Head(str) \in WhiteSpace THEN trimStart(Tail(str)) ELSE str

RECURSIVE trimEnd(_)
trimEnd(str) ==
    IF str # <<>> /\ str[Len(str)] \in WhiteSpace
    THEN trimEnd(SubSeq(str, 1, Len(str) - 1))
    ELSE str

\* String.prototype.trim
trim(str) == trimEnd(trimStart(str))

\* String.prototype.split(/ +/): the pieces between maximal runs of " "
\* (`cur` is the piece being read, `inRun` whether the last character was " ")
RECURSIVE splitFrom(_, _, _)
splitFrom(str, cur, inRun) ==
    IF str = <<>> THEN <<cur>>
    ELSE IF Head(str) = " "
         THEN IF inRun THEN splitFrom(Tail(str), cur, TRUE)
                       ELSE <<cur>> \o splitFrom(Tail(str), <<>>, TRUE)
         ELSE splitFrom(Tail(str), Append(cur, Head(str)), FALSE)

\* split on runs of any whitespace character, as /\s+/ would
splitAny(str) ==
    LET RECURSIVE from(_, _, _)
        from(rest, cur, inRun) ==
            IF rest = <<>> THEN <<cur>>
            ELSE IF Head(rest) \in WhiteSpace
                 THEN IF inRun THEN from(Tail(rest), cur, TRUE)
                               ELSE <<cur>> \o from(Tail(rest), <<>>, TRUE)
                 ELSE from(Tail(rest), Append(cur, Head(rest)), FALSE)
    IN  from(str, <<>>, FALSE)

split(str) == splitFrom(str, <<>>, FALSE)

\* String.prototype.toLowerCase on one character (the letters of the model)
toLowerChar(c) ==
    CASE c = "A" -> "a"
      [] c = "D" -> "d"
      [] c = "H" -> "h"
      [] c = "K" -> "k"
      [] c = "Z" -> "z"
      [] OTHER -> c

toLowerCase(str) == [i \in 1..Len(str) |-> toLowerChar(str[i])]

\* function s(int)
s(int) == IF int = 1 THEN "" ELSE "s"

\* a string of at most one character, as a sequence of characters
chars(str) == IF str = "" THEN <<>> ELSE <<str>>

\* the replacement patterns of String.prototype.replace in the replacement
\* string: $$ is "$", $& the matched text, $` the text before the match and
\* $' the text after it; the patterns of this model have no capture group,
\* so $1..$9 stay as they are
RECURSIVE expand(_, _, _, _)
expand(value, matched, before, after) ==
    IF value = <<>> THEN <<>>
    ELSE IF Head(value) = "$" /\ Len(value) >= 2 /\ value[2] \in {"$", "&", "`", "'"}
         THEN LET rest == expand(SubSeq(value, 3, Len(value)), matched, before, after)
              IN  CASE value[2] = "$" -> <<"$">> \o rest
                    [] value[2] = "&" -> matched \o rest
                    [] value[2] = "`" -> before \o rest
                    [] value[2] = "'" -> after \o rest
         ELSE <<Head(value)>> \o expand(Tail(value), matched, before, after)

\* str.replace(/pattern/g, value) for a pattern of literal characters: every
\* match, left to right and not overlapping, is replaced (`i` is the position
\* the scan has reached)
RECURSIVE replaceFrom(_, _, _, _)
replaceFrom(str, i, pattern, value) ==
    IF i > Len(str) THEN <<>>
    ELSE IF startsWith(SubSeq(str, i, Len(str)), pattern)
         THEN expand(value, pattern, SubSeq(str, 1, i - 1),
                     SubSeq(str, i + Len(pattern), Len(str)))
              \o replaceFrom(str, i + Len(pattern), pattern, value)
         ELSE <<str[i]>> \o replaceFrom(str, i + 1, pattern, value)

replaceGlobal(str, pattern, value) == replaceFrom(str, 1, pattern, value)

\* String.prototype.indexOf, counting from 1; 0 when there is no occurrence
indexOf(str, pattern) ==
    LET found == { i \in 1..Len(str) : startsWith(SubSeq(str, i, Len(str)), pattern) }
    IN  IF found = {} THEN 0 ELSE CHOOSE i \in found : \A j \in found : i <= j

\* str.replace(pattern, value) for a string pattern: the first occurrence only
replace(str, pattern, value) ==
    LET i == indexOf(str, pattern)
    IN  IF i = 0 THEN str
        ELSE LET before == SubSeq(str, 1, i - 1)
                 after == SubSeq(str, i + Len(pattern), Len(str))
             IN  before \o expand(value, pattern, before, after) \o after

digit(d) ==
    CASE d = 0 -> "0" [] d = 1 -> "1" [] d = 2 -> "2" [] d = 3 -> "3"
      [] d = 4 -> "4" [] d = 5 -> "5" [] d = 6 -> "6" [] d = 7 -> "7"
      [] d = 8 -> "8" [] d = 9 -> "9"

\* the decimal digits of a natural number
RECURSIVE digits(_)
digits(n) == IF n < 10 THEN <<digit(n)>> ELSE Append(digits(n \div 10), digit(n % 10))

\* the number of tenths nearest to ms / 1000.  A time exactly between two
\* tenths (ms % 100 = 50) is rounded by toFixed as the binary value of
\* ms / 1000 falls; the times of this model are never of that kind.
tenthsOf(ms) == (ms + 50) \div 100

\* (ms / 1000).toFixed(1)
toFixed(ms) ==
    Append(Append(digits(tenthsOf(ms) \div 10), "."), digit(tenthsOf(ms) % 10))

\* the placeholder tokens the responders look for
PhCommand == <<"{", "{", "c", "o", "m", "m", "a", "n", "d", "}", "}">>
PhPrefix == <<"{", "{", "p", "r", "e", "f", "i", "x", "}", "}">>
PhCooldown == <<"{", "{", "c", "o", "o", "l", "d", "o", "w", "n", "}", "}">>
PhS == <<"{", "{", "s", "}", "}">>
PhAuthor == <<"{", "{", "a", "u", "t", "h", "o", "r", "}", "}">>

-----------------------------------------------------------------------------
(* The command registry *)

Users == {"u1", "u2"}

\* `permissions` / `botPermissions` of a descriptor: absent, one string, or an
\* array of strings
NoPermissions == [given |-> FALSE, array |-> FALSE, names |-> <<>>]
OnePermission(p) == [given |-> TRUE, array |-> FALSE, names |-> <<p>>]
PermissionArray(ps) == [given |-> TRUE, array |-> TRUE, names |-> ps]

\* a command file that exports only name and execute; args 0 and cooldown 0
\* stand for an absent field (the code reads both through `|| default`)
Descriptor(name) ==
    [name |-> name, aliases |-> <<>>, args |-> 0, usage |-> <<>>, cooldown |-> 0,
     guildOnly |-> FALSE, dmsOnly |-> FALSE, ownersOnly |-> FALSE,
     permissions |-> NoPermissions, botPermissions |-> NoPermissions,
     blockedUsers |-> {}, unblockedUsers |-> {}]

\* the command files of the commands directory, in directory order
CommandFiles ==
    << [Descriptor(<<"k">>) EXCEPT !.guildOnly = TRUE, !.ownersOnly = TRUE,
                                   !.permissions = PermissionArray(<<"X">>),
                                   !.botPermissions = OnePermission("X"),
                                   !.args = 2, !.cooldown = 2],
       [Descriptor(<<"h">>) EXCEPT !.aliases = << <<"a">> >>,
                                   !.blockedUsers = {"u2"}],
       [Descriptor(<<"d">>) EXCEPT !.dmsOnly = TRUE, !.args = 1,
                                   !.unblockedUsers = {"u2"}] >>

\* command files a commands directory may hold: two files that export the
\* same name, a file whose name is an alias of another, two files with the
\* same alias, and a file that exports a name with a capital letter
LoadableFiles ==
    { [Descriptor(<<"h">>) EXCEPT !.aliases = << <<"a">> >>],
      [Descriptor(<<"h">>) EXCEPT !.args = 1],
      Descriptor(<<"a">>),
      [Descriptor(<<"d">>) EXCEPT !.aliases = << <<"a">> >>],
      Descriptor(<<"Z">>) }

\* the directories of at most n files
RECURSIVE Directories(_)
Directories(n) ==
    IF n = 0 THEN { <<>> }
    ELSE LET fewer == Directories(n - 1)
         IN  fewer \cup { Append(dir, file) : dir \in fewer, file \in LoadableFiles }

\* a commands directory with a command that sets guildOnly and dmsOnly, and
\* one that sets guildOnly alone
ContextFiles ==
    << [Descriptor(<<"b">>) EXCEPT !.guildOnly = TRUE, !.dmsOnly = TRUE],
       [Descriptor(<<"g">>) EXCEPT !.guildOnly = TRUE] >>

\* a commands directory with one command of a long cooldown
WaitFiles == << [Descriptor(<<"w">>) EXCEPT !.cooldown = MaxCooldown] >>

\* Collection.set(key, value)
set(collection, key, value) ==
    [k \in DOMAIN collection \cup {key} |->
        IF k = key THEN value ELSE collection[k]]

\* Collection.has(key)
has(collection, key) == key \in DOMAIN collection

\* Collection.delete(key)
delete(collection, key) == [k \in DOMAIN collection \ {key} |-> collection[k]]

\* new Collection()
Collection == [k \in {} |-> {}]

\* __loadCommands: client.commands.set(command.name, command) for every file
RECURSIVE loadFrom(_, _)
loadFrom(files, collection) ==
    IF files = <<>> THEN collection
    ELSE loadFrom(Tail(files), set(collection, Head(files).name, Head(files)))

__loadCommands(files) == loadFrom(files, Collection)

\* client.commands.find(cmd => cmd.aliases && cmd.aliases.includes(command_name))
findByAlias(collection, command_name) ==
    {k \in DOMAIN collection :
        \E i \in 1..Len(collection[k].aliases) :
            collection[k].aliases[i] = command_name}

\* client.commands.get(command_name) || client.commands.find(...)
\* (the result is the key of the descriptor; line 508 is reached only when
\* has(command_name) holds, so get() never misses there)
lookup(collection, command_name) ==
    IF has(collection, command_name) THEN command_name
    ELSE CHOOSE k \in findByAlias(collection, command_name) : TRUE

\* client.slash, client.buttons, client.selects
TableNames == {"slash", "buttons", "selects"}

\* what an interaction says of itself: isCommand(), isButton(),
\* isSelectMenu(), or none of them
Kinds == {"command", "button", "select", "other"}

\* one table for buttons and select menus
tableOfComponents(kind) == IF kind = "command" THEN "slash" ELSE "buttons"

\* the table __interaction reads for a kind, lines 618, 636, 642
tableOf(kind) ==
    CASE kind = "command" -> "slash"
      [] kind = "button" -> "buttons"
      [] kind = "select" -> "selects"

\* interaction.commandName and interaction.customId values
Ids == {"a", "b"}

\* the handler a file of the directory of `table` exports under `id`
Handler(table, id) == [table |-> table, id |-> id]

\* a table that was never created: the property of client is undefined
NoTable == [defined |-> FALSE, entries |-> Collection]

\* new Collection() filled with the handlers of the files, lines 734-745,
\* 763-774, 800-806
Table(name, ids) ==
    [defined |-> TRUE, entries |-> [id \in ids |-> Handler(name, id)]]

NoTables == [name \in TableNames |-> NoTable]

\* the tables with these ids in the three directories
Tables(slashIds, buttonIds, selectIds) ==
    [name \in TableNames |->
        CASE name = "slash" -> Table(name, slashIds)
          [] name = "buttons" -> Table(name, buttonIds)
          [] name = "selects" -> Table(name, selectIds)]

\* what __registerButtons, __registerSelectMenus and __deployCommands leave
\* behind: a directory that cannot be read leaves its table undefined, and so
\* does data.slash when it is not set (line 795)
HandlerTables ==
    { NoTables,
      Tables({}, {}, {}),
      Tables({"a"}, {"a"}, {"a"}),
      Tables({"a"}, {"b"}, {"a", "b"}),
      [Tables({}, {"a"}, {"a"}) EXCEPT !["slash"] = NoTable],
      [Tables({"a"}, {}, {"b"}) EXCEPT !["buttons"] = NoTable] }

-----------------------------------------------------------------------------
(* __message: the body of the try block, lines 485-592.                     *)
(* Each guard is one operator that either leaves the try block or goes on   *)
(* to the next guard; they are defined last guard first.  `ctx` holds the   *)
(* locals of __message: message, now, prefix, command_name, args, command,  *)
(* owner.  The result says how the try block was left:                      *)
(*   "return"   a bare return: nothing is sent                              *)
(*   "respond"  return this.responces[key](message, data)                   *)
(*   "throw"    an exception was raised inside the try block                *)
(*   "execute"  line 589 was reached: the record is written, the timer      *)
(*              scheduled and command.execute called                        *)
(* `reached` tells which statements with a side effect were passed:         *)
(*   1 = lines 512-514 (absent block lists become []), 2 = line 523 (the    *)
(*   command's cooldown bucket exists).  time_left is in milliseconds.      *)

Returned ==
    [exit |-> "return", key |-> "", prefix |-> False, command_name |-> <<>>,
     args |-> <<>>, command |-> <<>>, time_left |-> 0, reached |-> 0]

Leave(ctx, exit, key, reached) ==
    [exit |-> exit, key |-> key, prefix |-> ctx.prefix,
     command_name |-> ctx.command_name, args |-> ctx.args,
     command |-> ctx.command.name, time_left |-> 0, reached |-> reached]

\* Permissions.has of the platform client: every named permission is in the
\* snapshot, or the snapshot holds ADMINISTRATOR
permsHas(perms, names) ==
    \/ "ADMINISTRATOR" \in perms
    \/ \A i \in 1..Len(names) : names[i] \in perms

\* lines 555 and 569: !perms || !perms.has(required) || !perms.has("ADMINISTRATOR")
permsRefused(perms, required) ==
    \/ perms = Null
    \/ ~permsHas(perms, required.names)
    \/ ~permsHas(perms, <<"ADMINISTRATOR">>)

\* (command.cooldown || 1) * 1000, line 527
\* cooldown * 1000 with no default
cooldown_amountDeclared(command) == command.cooldown * 1000

cooldown_amount(command) ==
    (IF command.cooldown # 0 THEN command.cooldown ELSE 1) * 1000

\* usageGuard taking arity 0 for "exactly no arguments"
usageGuardExact(ctx) ==
    IF ctx.command.args # Len(ctx.args)
    THEN Leave(ctx, "respond", "command_incorrect_usage", 2)
    ELSE Leave(ctx, "execute", "", 2)

\* lines 580-592
usageGuard(ctx) ==
    LET num_args == ctx.command.args
    IN  IF num_args # Len(ctx.args) /\ num_args # 0
        THEN Leave(ctx, "respond", "command_incorrect_usage", 2)
        ELSE Leave(ctx, "execute", "", 2)

\* lines 566-578
botPermissionGuard(ctx) ==
    IF /\ ctx.command.botPermissions.given
       /\ permsRefused(ctx.message.channel.botPerms, ctx.command.botPermissions)
    THEN Leave(ctx, "respond", "command_no_bot_permission", 2)
    ELSE usageGuard(ctx)

\* lines 552-564
permissionGuard(ctx) ==
    IF /\ ctx.command.permissions.given
       /\ permsRefused(ctx.message.channel.authorPerms, ctx.command.permissions)
    THEN Leave(ctx, "respond", "command_no_permission", 2)
    ELSE botPermissionGuard(ctx)

\* lines 545-550; building the data of the response reads
\* this.data.owners.length, which throws when owners is not configured
ownersGuard(ctx) ==
    IF ctx.command.ownersOnly /\ ~ctx.owner
    THEN IF owners = Undefined
         THEN Leave(ctx, "throw", "", 2)
         ELSE Leave(ctx, "respond", "command_owners_only", 2)
    ELSE permissionGuard(ctx)

\* contextGuard with the check of dmsOnly before the check of guildOnly
contextGuardDmsFirst(ctx) ==
    IF ctx.command.dmsOnly /\ ctx.message.channel.type # "dm"
    THEN Leave(ctx, "respond", "command_dms_only", 2)
    ELSE IF ctx.command.guildOnly /\ ctx.message.channel.type # "text"
         THEN Leave(ctx, "respond", "command_guild_only", 2)
         ELSE ownersGuard(ctx)

\* contextGuard without the check of dmsOnly
contextGuardGuildOnly(ctx) ==
    IF ctx.command.guildOnly /\ ctx.message.channel.type # "text"
    THEN Leave(ctx, "respond", "command_guild_only", 2)
    ELSE ownersGuard(ctx)

\* lines 542-543
contextGuard(ctx) ==
    IF ctx.command.guildOnly /\ ctx.message.channel.type # "text"
    THEN Leave(ctx, "respond", "command_guild_only", 2)
    ELSE IF ctx.command.dmsOnly /\ ctx.message.channel.type # "dm"
         THEN Leave(ctx, "respond", "command_dms_only", 2)
         ELSE ownersGuard(ctx)

\* cooldowns.get(command.name) after line 523
timestampsOf(name) == IF has(cooldowns, name) THEN cooldowns[name] ELSE Collection

\* cooldownGuard with `now <= expiration_time`
cooldownGuardInclusive(ctx) ==
    LET timestamps == timestampsOf(ctx.command.name)
        id == ctx.message.author.id
    IN  IF has(timestamps, id)
           /\ ctx.now <= timestamps[id] + cooldown_amount(ctx.command)
        THEN [Leave(ctx, "respond", "command_cooldown", 2) EXCEPT
                 !.time_left = timestamps[id] + cooldown_amount(ctx.command) - ctx.now]
        ELSE contextGuard(ctx)

\* lines 523-540
cooldownGuard(ctx) ==
    LET timestamps == timestampsOf(ctx.command.name)
        id == ctx.message.author.id
    IN  IF has(timestamps, id)
           /\ ctx.now < timestamps[id] + cooldown_amount(ctx.command)
        THEN [Leave(ctx, "respond", "command_cooldown", 2) EXCEPT
                 !.time_left = timestamps[id] + cooldown_amount(ctx.command) - ctx.now]
        ELSE contextGuard(ctx)

\* this.data.blockedUsers.includes(id) after line 512
globallyBlocked(id) ==
    /\ blockedUsers # Undefined
    /\ \E i \in 1..Len(blockedUsers) : blockedUsers[i] = id

\* blockGuard with the allow-list overriding the command's block-list only
blockGuardGlobalFirst(ctx) ==
    LET id == ctx.message.author.id
    IN  IF \/ globallyBlocked(id)
           \/ id \in ctx.command.blockedUsers /\ id \notin ctx.command.unblockedUsers
        THEN Leave(ctx, "respond", "command_blocked", 1)
        ELSE cooldownGuard(ctx)

\* lines 512-521
blockGuard(ctx) ==
    LET id == ctx.message.author.id
    IN  IF /\ globallyBlocked(id) \/ id \in ctx.command.blockedUsers
           /\ id \notin ctx.command.unblockedUsers
        THEN Leave(ctx, "respond", "command_blocked", 1)
        ELSE cooldownGuard(ctx)

\* lines 505-506: is the author one of this.data.owners || []
isOwner(id) ==
    /\ owners # Undefined
    /\ \E i \in 1..Len(owners) : owners[i] = id

\* lines 498-510; client.commands.has raises a TypeError when client.commands
\* was never created
unknownGuard(message, now, prefix, command_name, args) ==
    IF ~directory.found
    THEN [Returned EXCEPT !.exit = "throw", !.prefix = prefix,
                          !.command_name = command_name, !.args = args]
    ELSE IF ~has(commands, command_name)
    THEN [Returned EXCEPT !.exit = "respond", !.key = "command_unknown",
                          !.prefix = prefix, !.command_name = command_name,
                          !.args = args]
    ELSE blockGuard([message |-> message, now |-> now, prefix |-> prefix,
                     command_name |-> command_name, args |-> args,
                     command |-> commands[lookup(commands, command_name)],
                     owner |-> isOwner(message.author.id)])

\* selectPrefix with a break at the first match
RECURSIVE selectFirstPrefix(_, _, _)
selectFirstPrefix(content, list, prefix) ==
    IF list = <<>> THEN prefix
    ELSE IF startsWith(content, Head(list)) THEN Head(list)
         ELSE selectFirstPrefix(content, Tail(list), prefix)

\* lines 488-489: the loop assigns at every match and never breaks
RECURSIVE selectPrefix(_, _, _)
selectPrefix(content, list, prefix) ==
    IF list = <<>> THEN prefix
    ELSE selectPrefix(content, Tail(list),
                      IF startsWith(content, Head(list)) THEN Head(list) ELSE prefix)

\* this.data.prefixes || ["!"]
prefixList == IF prefixes = Undefined THEN << <<"!">> >> ELSE prefixes

\* tokenize folding the case of every token
tokenizeFoldAll(content, prefix) ==
    LET raw_args == split(trim(slice(content, Len(prefix))))
    IN  [command_name |-> toLowerCase(Head(raw_args)),
         args |-> [i \in 1..(Len(raw_args) - 1) |-> toLowerCase(raw_args[i + 1])]]

\* lines 492-494: raw_args, command_name = raw_args.shift().toLowerCase(),
\* args = what is left of raw_args
tokenize(content, prefix) ==
    LET raw_args == split(trim(slice(content, Len(prefix))))
    IN  [command_name |-> toLowerCase(Head(raw_args)), args |-> Tail(raw_args)]

\* lines 485-496, then the guards
\* a try block that does not look at message.webhookID
tryBodyOfAnySender(message, now) ==
    IF message.author.bot THEN Returned
    ELSE LET prefix == selectPrefix(message.content, prefixList, False)
         IN  IF prefix = False \/ prefix = <<>> THEN Returned
             ELSE LET tokens == tokenize(message.content, prefix)
                  IN  IF tokens.command_name = <<>>
                      THEN [Returned EXCEPT !.prefix = prefix]
                      ELSE unknownGuard(message, now, prefix, tokens.command_name,
                                        tokens.args)

tryBody(message, now) ==
    IF message.author.bot THEN Returned
    ELSE IF message.webhookID THEN Returned
    ELSE LET prefix == selectPrefix(message.content, prefixList, False)
         IN  IF prefix = False \/ prefix = <<>> THEN Returned
             ELSE LET tokens == tokenize(message.content, prefix)
                      command_name == tokens.command_name
                      args == tokens.args
                  IN  IF command_name = <<>>
                      THEN [Returned EXCEPT !.prefix = prefix]
                      ELSE unknownGuard(message, now, prefix, command_name, args)

-----------------------------------------------------------------------------
(* Inbound messages *)

\* message.channel.type values the platform client may report
ChannelTypes == {"text", "dm", "GUILD_TEXT"}

\* what command.execute(message, args) does when called at line 592:
\* returns normally, throws, or returns a promise that settles later
Behaviours == {"returns", "throws", "promise"}

Message(id, bot, webhook, content, type, authorPerms, botPerms) ==
    [author |-> [id |-> id, bot |-> bot], webhookID |-> webhook,
     content |-> content,
     channel |-> [type |-> type, authorPerms |-> authorPerms, botPerms |-> botPerms]]

\* n positional arguments "x", each after one space
RECURSIVE Arguments(_)
Arguments(n) == IF n = 0 THEN <<>> ELSE <<" ", "x">> \o Arguments(n - 1)

AllPermissions == {"X", "ADMINISTRATOR"}

\* messages of users with every permission in a guild text channel
DynMessages ==
    { Message(id, FALSE, FALSE, content, "text", AllPermissions, AllPermissions) :
        id \in Users,
        content \in { <<"!", "h">>, <<"!", "k", " ", "x", " ", "x">> } }

\* messages that authorize a command when nothing stands in the way
WarmMessages ==
    { Message("u1", FALSE, FALSE, <<"!", "h">>, "text", AllPermissions, AllPermissions),
      Message("u1", FALSE, FALSE, <<"!", "k", " ", "x", " ", "x">>, "text",
              AllPermissions, AllPermissions),
      Message("u1", FALSE, FALSE, <<"!", "d", " ", "x">>, "dm",
              AllPermissions, AllPermissions),
      Message("u2", FALSE, FALSE, <<"!", "d", " ", "x">>, "dm",
              AllPermissions, AllPermissions) }

\* messages that reach every guard with every combination of failing guards:
\* for each command, every value of the inputs its guards read
GuardMessages ==
    { Message(id, FALSE, FALSE, <<"!", "k">> \o Arguments(n), type, ap, bp) :
        id \in Users, n \in 0..MaxArgs, type \in ChannelTypes,
        ap \in {Null, {}, {"X"}, AllPermissions},
        bp \in {Null, {"X"}, AllPermissions} }
    \cup
    { Message(id, FALSE, FALSE, <<"!", "d">> \o Arguments(n), type,
              AllPermissions, AllPermissions) :
        id \in Users, n \in 0..MaxArgs, type \in ChannelTypes }
    \cup
    { Message(id, FALSE, FALSE, <<"!">> \o token \o Arguments(n), "text",
              AllPermissions, AllPermissions) :
        id \in Users, n \in 0..MaxArgs,
        token \in { <<"h">>, <<"a">>, <<"z">> } }
    \cup
    { Message("u1", bot, webhook, content, "text", AllPermissions, AllPermissions) :
        bot \in BOOLEAN, webhook \in BOOLEAN,
        content \in { <<"!", "h">>, <<"h">>, <<"!">>, <<"!", " ">> } }
    \cup WarmMessages

ParseAlphabet == {"!", "?", " ", "\t", "h", "H"}

RECURSIVE Strings(_)
Strings(n) ==
    IF n = 0 THEN { <<>> }
    ELSE LET shorter == Strings(n - 1)
         IN  shorter \cup { Append(str, c) : str \in shorter, c \in ParseAlphabet }

\* texts with arguments: separated by spaces, by a tab, by a newline, with
\* capital letters, and with whitespace around them
ArgumentTexts ==
    { <<"!", "h", " ", "x", " ", "y">>,
      <<"!", "h", " ", "X", " ", " ", "y", " ">>,
      <<"!", "h", " ", "x", "\t", "y">>,
      <<"!", "h", " ", "x", "\n", "y">>,
      <<"!", " ", "H", " ", "x", " ", "\t", " ", "Y", "\n">> }

\* every raw text up to MaxLen characters, and the texts with arguments
ParseMessages ==
    { Message("u1", FALSE, FALSE, content, "text", AllPermissions, AllPermissions) :
        content \in Strings(MaxLen) \cup ArgumentTexts }
    \cup WarmMessages

\* both users invoking h in a guild channel and d in a direct channel
BlockMessages ==
    { Message(id, FALSE, FALSE, <<"!", "h">>, "text", AllPermissions, AllPermissions) :
        id \in Users }
    \cup
    { Message(id, FALSE, FALSE, <<"!", "d", " ", "x">>, "dm",
              AllPermissions, AllPermissions) :
        id \in Users }

\* invocations of the commands of ContextFiles in every kind of channel
ContextMessages ==
    { Message(id, FALSE, FALSE, content, type, AllPermissions, AllPermissions) :
        id \in Users, content \in { <<"!", "b">>, <<"!", "B", " ", "x">>, <<"!", "g">> },
        type \in ChannelTypes }

\* command tokens no command is registered under: a word, the placeholder
\* tokens, and the replacement patterns of String.prototype.replace
UnregisteredTokens ==
    { <<"z">>, PhPrefix, PhCommand,
      <<"$", "&">>, <<"$", "$">>, <<"$", "`">>, <<"$", "'">>, <<"$", "1">> }

\* messages with an unregistered token after the prefix "!" or "$"
RenderMessages ==
    { Message("u1", FALSE, FALSE, prefix \o token, "text",
              AllPermissions, AllPermissions) :
        prefix \in { <<"!">>, <<"$">> }, token \in UnregisteredTokens }

\* the user of the pending cooldown invoking the command again
WaitMessages ==
    { Message("u1", FALSE, FALSE, <<"!", "w">>, "text", AllPermissions, AllPermissions) }

\* remaining times, in milliseconds: every tenth of a second up to the
\* longest cooldown, and times that round to no tenth at all
Durations == { 100 * k : k \in 1..(10 * MaxCooldown) } \cup {10, 40}

\* one message for every token of the load family
LoadMessages ==
    { Message("u1", FALSE, FALSE, <<"!">> \o token, "text",
              AllPermissions, AllPermissions) :
        token \in { <<"h">>, <<"H">>, <<"a">>, <<"d">>, <<"z">>, <<"Z">> } }

\* prefix lists a bot may be configured with
PrefixLists ==
    { Undefined,
      << <<"!">>, <<"?">> >>,
      << <<"!">>, <<"!", "!">> >>,
      << <<"!", "!">>, <<"!">> >>,
      << <<"?">>, <<>> >>,
      << <<>>, <<"?">> >> }

-----------------------------------------------------------------------------
(* Actions *)

NoMessage == Message("", FALSE, FALSE, <<>>, "text", Null, Null)

\* catches with command.execute called outside the try block
catchesGuardsOnly(r, behaviour) == r.exit = "throw"

\* the catch block, lines 593-599, is entered when the try block raised:
\* in a guard, or in command.execute itself when it throws before returning
catches(r, behaviour) ==
    \/ r.exit = "throw"
    \/ r.exit = "execute" /\ behaviour = "throws"

\* a responder finds a template for its key, lines 223, 241, 260: when
\* this.data.responces has no entry for the key, or an empty list,
\* list[Math.floor(Math.random() * list.length)].replace raises a TypeError
renders(key) == key \in DOMAIN responces /\ responces[key] # <<>>

\* `return this.responces[key](...)` is inside the try block: a responder
\* that raises enters the catch block as well
entersCatch(r, behaviour) ==
    \/ catches(r, behaviour)
    \/ r.exit = "respond" /\ ~renders(r.key)

\* the responses one call of __message sends, as catalog keys: the guard's
\* (`return this.responces[key](...)`) or the catch block's command_error
responsesOf(r, behaviour) ==
    IF r.exit = "respond" /\ renders(r.key) THEN <<r.key>>
    ELSE IF entersCatch(r, behaviour) /\ renders("command_error")
         THEN <<"command_error">>
    ELSE <<>>

\* the catch block itself raises when command_error has no template: the
\* exception leaves __message
raises(r, behaviour) == entersCatch(r, behaviour) /\ ~renders("command_error")

\* the catalog keys
Keys ==
    {"command_unknown", "command_error", "command_cooldown", "command_guild_only",
     "command_dms_only", "command_owners_only", "command_blocked",
     "command_no_permission", "command_no_bot_permission", "command_incorrect_usage"}

\* a catalog with the given templates for command_unknown and command_cooldown
\* and one template without placeholders for every other key
Catalog(unknown, cooldown) ==
    [key \in Keys |->
        CASE key = "command_unknown" -> unknown
          [] key = "command_cooldown" -> cooldown
          [] OTHER -> << <<"n", "o">> >>]

\* the catalog of a bot that shows the command and the remaining time
ShortCatalog == Catalog(<< PhPrefix \o PhCommand >>, << PhCooldown \o PhS >>)

\* lists of command_unknown templates a bot may be configured with
UnknownTemplates ==
    { << PhCommand >>,
      << PhPrefix \o PhCommand >>,
      << PhCommand \o <<" ">> \o PhCommand, <<"n", "o">> >>,
      << PhPrefix \o <<" ">> \o PhCommand \o <<" ">> \o PhPrefix >> }

\* message.author.username
username(id) == <<id>>

\* the string String.prototype.replace makes of its second argument: a
\* field the caller left out of `data` is undefined and becomes "undefined"
stringOf(value) ==
    IF value = Undefined
    THEN <<"u", "n", "d", "e", "f", "i", "n", "e", "d">>
    ELSE value

\* this.responces.command_unknown, lines 222-225: the text of the embed
command_unknown(template, data) ==
    replaceGlobal(replaceGlobal(template, PhCommand, stringOf(data.command_name)),
                  PhPrefix, stringOf(data.prefix))

\* this.responces.command_cooldown, lines 259-264: the text of the embed
command_cooldown(template, message, data) ==
    replaceGlobal(
        replaceGlobal(
            replaceGlobal(replaceGlobal(template, PhS, stringOf(data.s)),
                          PhCooldown, stringOf(data.time_left)),
            PhAuthor, username(message.author.id)),
        PhCommand, stringOf(data.command_name))

\* lines 534-538, the data of the cooldown response for time_left milliseconds:
\* s(parseFloat(time_left.toFixed(1))), where a number with a fractional digit
\* is not == 1, and time_left.toFixed(1).replace("0.", ".").replace(".0", "")
cooldownData(time_left, command_name) ==
    [s |-> IF tenthsOf(time_left) % 10 = 0
           THEN chars(s(tenthsOf(time_left) \div 10))
           ELSE <<"s">>,
     time_left |-> replace(replace(toFixed(time_left), <<"0", ".">>, <<".">>),
                           <<".", "0">>, <<>>),
     command_name |-> command_name]

\* the values Math.floor(Math.random() * list.length) may take for the
\* response of this call (counted from 1)
templateChoices(r) ==
    IF r.exit = "respond" /\ renders(r.key) THEN 1..Len(responces[r.key]) ELSE {1}

\* the text of the response sent for a rejection, with the template at
\* `index`; the texts of command_unknown and command_cooldown are rendered,
\* the other responses are kept by their key only
textOf(r, message, index) ==
    IF r.exit # "respond" \/ ~renders(r.key) THEN <<>>
    ELSE CASE r.key = "command_unknown" ->
                command_unknown(responces[r.key][index],
                                [command_name |-> r.command_name, prefix |-> r.prefix])
           [] r.key = "command_cooldown" ->
                command_cooldown(responces[r.key][index], message,
                                 cooldownData(r.time_left, r.command_name))
           [] OTHER -> <<>>

\* line 590: setTimeout(() => timestamps.delete(id), cooldown_amount), called
\* at time `now` (`at` is kept to tell which authorization scheduled it)
evictionTimer(name, id, now) ==
    [name |-> name, id |-> id, at |-> now,
     due |-> now + cooldown_amount(commands[name])]

\* a tracker that takes the time of every event that reaches line 523
cooldownsAfterRefreshing(r, id, now) ==
    IF r.reached < 2 THEN cooldowns
    ELSE set(cooldowns, r.command, set(timestampsOf(r.command), id, now))

\* client.cooldowns after the call: line 523 creates the bucket of the
\* command when the event gets that far, and line 589 writes the record
\* when the last guard has passed
cooldownsAfter(r, id, now) ==
    IF r.reached < 2 THEN cooldowns
    ELSE IF r.exit = "execute"
         THEN set(cooldowns, r.command, set(timestampsOf(r.command), id, now))
         ELSE set(cooldowns, r.command, timestampsOf(r.command))

\* a dispatch that awaits the handler: it returns once the promise settled
promiseAwaited(called, behaviour) ==
    IF called /\ behaviour = "promise" THEN "resolved" ELSE "none"

\* line 592, command.execute(message, args) without await: when __message
\* returns, the promise a handler returned is still pending
promiseOf(called, behaviour) ==
    IF called /\ behaviour = "promise" THEN "pending" ELSE "none"

\* __message(message), lines 478-600, with command.execute behaving as
\* `behaviour` if it is called.  The whole function runs without yielding:
\* it contains no await, so no other callback runs between its statements.
\* `last` keeps the event for the properties: the message, the time, how the
\* try block was left, what was sent, and the cooldown state before the event.
__message(message, behaviour) ==
    LET now == clock
        r == tryBody(message, now)
        id == message.author.id
        called == r.exit = "execute"
        timestamps == timestampsOf(r.command)
    IN  \E index \in templateChoices(r) :
        /\ blockedUsers' = IF r.reached >= 1 /\ blockedUsers = Undefined
                           THEN <<>> ELSE blockedUsers
        /\ cooldowns' = cooldownsAfter(r, id, now)
        /\ timers' = IF called
                     THEN timers (+) SetToBag({evictionTimer(r.command, id, now)})
                     ELSE timers
        /\ inflight' = inflight + (IF last.promise = "pending" THEN 1 ELSE 0)
        /\ last' = [message |-> message, now |-> now, result |-> r,
                    responses |-> responsesOf(r, behaviour),
                    template |-> index,
                    text |-> textOf(r, message, index),
                    handlerCalls |-> IF called THEN 1 ELSE 0,
                    handlerArgs |-> IF called THEN r.args ELSE <<>>,
                    behaviour |-> IF called THEN behaviour ELSE "",
                    caught |-> entersCatch(r, behaviour),
                    raised |-> raises(r, behaviour),
                    promise |-> promiseOf(called, behaviour),
                    before |-> [cooldowns |-> cooldowns, timers |-> timers,
                                blockedUsers |-> blockedUsers,
                                commands |-> commands]]
        /\ nEvents' = nEvents + 1
        /\ UNCHANGED <<interactionVars, prefixes, owners, responces, directory, commands, clock>>

\* the platform client delivers a messageCreate event.  So that the runs stay
\* finite, max events are delivered, and all but the last of them are drawn
\* from WarmMessages.
Deliver(family, behaviours, max) ==
    /\ nEvents < max
    /\ nEvents = 0 \/ last.message \in WarmMessages
    /\ \E message \in family, behaviour \in behaviours :
           __message(message, behaviour)

Receive ==
    /\ nEvents < MaxEvents
    /\ \E message \in DynMessages, behaviour \in Behaviours :
           __message(message, behaviour)

ReceiveGuarded == Deliver(GuardMessages, Behaviours, MaxGuardEvents)

ReceiveText == Deliver(ParseMessages, {"returns"}, MaxParseEvents)

ReceiveContext ==
    /\ nEvents < MaxContextEvents
    /\ \E message \in ContextMessages, behaviour \in Behaviours :
           __message(message, behaviour)

ReceiveBlock ==
    /\ nEvents < MaxBlockEvents
    /\ \E message \in BlockMessages : __message(message, "returns")

\* the code that owns the bot assigns this.data.blockedUsers between events
BlockedUsersAssigned ==
    /\ \E list \in { <<>>, <<"u2">> } : blockedUsers' = list
    /\ UNCHANGED <<interactionVars, prefixes, owners, responces, directory, commands, cooldowns,
                   timers, clock, nEvents, inflight, last>>

\* the code that owns the bot assigns the blockedUsers and unblockedUsers of
\* a registered command between events
CommandListsAssigned ==
    /\ \E blocked \in { {}, {"u2"} }, unblocked \in { {}, {"u2"} } :
           commands' = [commands EXCEPT ![<<"h">>].blockedUsers = blocked,
                                        ![<<"h">>].unblockedUsers = unblocked]
    /\ UNCHANGED <<interactionVars, prefixes, owners, blockedUsers, responces, directory, cooldowns,
                   timers, clock, nEvents, inflight, last>>

\* catalogs of a bot: complete, without command_error, with command_error
\* only, and none (data.responces not given)
DispatchCatalogs ==
    { ShortCatalog,
      [key \in Keys \ {"command_error"} |-> ShortCatalog[key]],
      [key \in {"command_error"} |-> ShortCatalog[key]],
      Collection }

\* events for registered and unregistered commands
ReceiveUnrendered ==
    /\ nEvents < MaxCatalogEvents
    /\ \E message \in DynMessages \cup
                       { Message("u2", FALSE, FALSE, <<"!", "z">>, "text",
                                 AllPermissions, AllPermissions) },
          behaviour \in Behaviours :
           __message(message, behaviour)

ReceiveRendered == Deliver(RenderMessages, {"returns"}, MaxRenderEvents)

ReceiveWaiting == Deliver(WaitMessages, {"returns"}, MaxFormatEvents)

\* events arrive once __ready has run
ReceiveLoaded ==
    /\ directory.read
    /\ Deliver(LoadMessages, {"returns"}, MaxLoadEvents)

\* __ready, lines 456-460: the commands directory is read and every file in
\* it registered; when readdirSync raises, __loadCommands returns at line 680
\* and client.commands is never created
__ready ==
    /\ ~directory.read
    /\ \/ \E dir \in Directories(MaxFiles) :
              /\ directory' = [read |-> TRUE, found |-> TRUE, files |-> dir]
              /\ commands' = __loadCommands(dir)
       \/ /\ directory' = [read |-> TRUE, found |-> FALSE, files |-> <<>>]
          /\ commands' = commands
    /\ cooldowns' = Collection
    /\ \E built \in HandlerTables : tables' = built
    /\ UNCHANGED <<globals, interaction, rendered, prefixes, owners, blockedUsers, responces, timers, clock,
                   nEvents, inflight, last>>

\* a timer that fires without running its callback
TimerFiresIdle ==
    \E timer \in BagToSet(timers) :
        /\ clock >= timer.due
        /\ timers' = timers (-) SetToBag({timer})
        /\ UNCHANGED <<interactionVars, prefixes, owners, blockedUsers, responces,
                       directory, commands, cooldowns, clock, nEvents, inflight, last>>

\* the callback of setTimeout at line 590: timestamps.delete(message.author.id).
\* A timer never fires before its delay has elapsed; it may fire later.
TimerFires ==
    \E timer \in BagToSet(timers) :
        /\ clock >= timer.due
        /\ cooldowns' = set(cooldowns, timer.name, delete(cooldowns[timer.name], timer.id))
        /\ timers' = timers (-) SetToBag({timer})
        /\ UNCHANGED <<interactionVars, prefixes, owners, blockedUsers, responces, directory, commands, clock, nEvents,
                       inflight, last>>

\* time passes
Tick ==
    /\ clock + TickMs <= MaxTime
    /\ clock' = clock + TickMs
    /\ UNCHANGED <<interactionVars, prefixes, owners, blockedUsers, responces, directory, commands, cooldowns, timers,
                   nEvents, inflight, last>>

\* time passes, up to MaxTime and on while a timer is waiting for its time
Elapse ==
    /\ \/ clock + TickMs <= MaxTime
       \/ \E timer \in BagToSet(timers) : clock < timer.due
    /\ clock' = clock + TickMs
    /\ UNCHANGED <<interactionVars, prefixes, owners, blockedUsers, responces,
                   directory, commands, cooldowns, timers, nEvents, inflight, last>>

\* events arrive up to MaxTime and no event arrives later
ReceiveEarly ==
    /\ nEvents < MaxLiveEvents
    /\ clock <= MaxTime
    /\ \E message \in DynMessages : __message(message, "returns")

\* the promise returned by the last event's handler is fulfilled
HandlerResolves ==
    /\ last.promise = "pending"
    /\ last' = [last EXCEPT !.promise = "resolved"]
    /\ UNCHANGED <<interactionVars, prefixes, owners, blockedUsers, responces, directory, commands, cooldowns, timers,
                   clock, nEvents, inflight>>

\* the promise returned by the last event's handler rejects; line 592 neither
\* awaits it nor attaches a catch, so the rejection is handled by nobody
HandlerRejects ==
    /\ last.promise = "pending"
    /\ last' = [last EXCEPT !.promise = "rejected"]
    /\ UNCHANGED <<interactionVars, prefixes, owners, blockedUsers, responces, directory, commands, cooldowns, timers,
                   clock, nEvents, inflight>>

\* the promise of an earlier event's handler settles
EarlierSettles ==
    /\ inflight > 0
    /\ inflight' = inflight - 1
    /\ UNCHANGED <<interactionVars, prefixes, owners, blockedUsers, responces, directory, commands, cooldowns, timers,
                   clock, nEvents, last>>

-----------------------------------------------------------------------------
(* Interactions *)

\* what handler.execute(interaction) does: returns (or its promise is
\* fulfilled at once), throws, or returns a promise that settles later
HandlerBehaviours == {"returns", "throws", "promise"}

\* no interaction has been dispatched
Idle ==
    [n |-> 0, kind |-> "other", id |-> "", behaviour |-> "", stage |-> "none",
     invoked |-> <<>>, replies |-> <<>>, logged |-> 0, error |-> "none",
     outcome |-> "none"]

\* a catch block that answers every kind of interaction
catchBlockReplying(state, replyOk) ==
    LET logged == [state EXCEPT !.logged = @ + 1, !.stage = "done"]
    IN  IF replyOk
        THEN [logged EXCEPT !.outcome = "fulfilled",
                            !.replies = Append(@, [key |-> "command_error",
                                                   ephemeral |-> TRUE])]
        ELSE [logged EXCEPT !.outcome = "rejected", !.error = "reply"]

\* the catch blocks of __interaction.  Lines 622-633 for a command: the error
\* is logged, then `msg = ...` and `embed = ...` assign to names that are
\* declared nowhere; the file is in strict mode (line 6), so each assignment
\* raises a ReferenceError unless the global object has the name.  The right
\* side of `msg = ...` is evaluated first and raises a TypeError when
\* command_error has no template.  Then the reply is awaited; `replyOk` tells
\* whether the platform accepts it.  Lines 639 and 645 for a button or a
\* select menu: the error is logged.
catchBlock(state, replyOk) ==
    LET logged == [state EXCEPT !.logged = @ + 1, !.stage = "done"]
    IN  IF state.kind # "command"
        THEN [logged EXCEPT !.outcome = "fulfilled"]
        ELSE IF ~renders("command_error")
        THEN [logged EXCEPT !.outcome = "rejected", !.error = "TypeError"]
        ELSE IF "msg" \notin globals \/ "embed" \notin globals
        THEN [logged EXCEPT !.outcome = "rejected", !.error = "ReferenceError"]
        ELSE IF replyOk
        THEN [logged EXCEPT !.outcome = "fulfilled",
                            !.replies = Append(@, [key |-> "command_error",
                                                   ephemeral |-> TRUE])]
        ELSE [logged EXCEPT !.outcome = "rejected", !.error = "reply"]

\* __interaction(interaction), lines 612-647, up to the point where it awaits
\* a handler that has not settled, or to its end
dispatch(kind, id, behaviour, replyOk) ==
    LET start == [Idle EXCEPT !.n = interaction.n + 1, !.kind = kind, !.id = id,
                              !.stage = "done"]
    IN  IF kind = "other"
        THEN [start EXCEPT !.outcome = "fulfilled"]
        ELSE LET table == tables[tableOf(kind)]
             IN  IF ~table.defined
                 THEN [start EXCEPT !.outcome = "rejected", !.error = "TypeError"]
                 ELSE IF ~has(table.entries, id)
                 THEN [start EXCEPT !.outcome = "fulfilled"]
                 ELSE LET called == [start EXCEPT !.invoked = <<table.entries[id]>>,
                                                  !.behaviour = behaviour]
                      IN  CASE behaviour = "returns" ->
                                   [called EXCEPT !.outcome = "fulfilled"]
                            [] behaviour = "throws" -> catchBlock(called, replyOk)
                            [] behaviour = "promise" ->
                                   [called EXCEPT !.stage = "awaiting",
                                                  !.outcome = "pending"]

\* the platform client delivers an interactionCreate event, line 402.  So
\* that the runs stay finite the next one is delivered once the last one
\* has settled.
__interaction ==
    /\ interaction.n < MaxInteractions
    /\ interaction.stage # "awaiting"
    /\ \E kind \in Kinds, id \in Ids, behaviour \in HandlerBehaviours,
          replyOk \in BOOLEAN :
           interaction' = dispatch(kind, id, behaviour, replyOk)
    /\ UNCHANGED <<tables, globals, rendered, responces, textVars>>

\* the promise the awaited handler returned is fulfilled: the function ends
AwaitedResolves ==
    /\ interaction.stage = "awaiting"
    /\ interaction' = [interaction EXCEPT !.stage = "done", !.outcome = "fulfilled"]
    /\ UNCHANGED <<tables, globals, rendered, responces, textVars>>

\* the promise the awaited handler returned rejects: the catch block runs
AwaitedRejects ==
    /\ interaction.stage = "awaiting"
    /\ \E replyOk \in BOOLEAN : interaction' = catchBlock(interaction, replyOk)
    /\ UNCHANGED <<tables, globals, rendered, responces, textVars>>

\* the catalogs the responders are called with: two templates for each of
\* command_unknown and command_cooldown, empty lists for them, no entries
\* for them, and no catalog at all (data.responces not given: an object
\* without entries behaves as undefined does, every lookup raises)
ResponderCatalogs ==
    { Catalog(<< PhPrefix \o PhCommand, PhCommand \o <<" ">> \o PhCommand >>,
              << PhCooldown \o PhS, PhAuthor \o <<" ">> \o PhCommand >>),
      Catalog(<<>>, <<>>),
      [key \in Keys \ {"command_unknown", "command_cooldown"} |-> ShortCatalog[key]],
      Collection }

\* the `data` argument of a direct call: each field given or left out
CallData ==
    [command_name : {Undefined, <<"z">>},
     prefix : {Undefined, <<"!">>},
     s : {Undefined, <<>>, <<"s">>},
     time_left : {Undefined, <<"2">>}]

\* the responders the code that owns the bot may call, lines 204-213
Responders == {"command_unknown", "command_cooldown"}

\* this.responces[key](message, data) with the template chosen at random
responder(key, template, message, data) ==
    CASE key = "command_unknown" -> command_unknown(template, data)
      [] key = "command_cooldown" -> command_cooldown(template, message, data)

\* the code that owns the bot calls bot.responces[key](message, data)
CallResponder ==
    /\ rendered.n < MaxCalls
    /\ \E key \in Responders, data \in CallData, message \in WarmMessages :
           IF renders(key)
           THEN \E index \in 1..Len(responces[key]) :
                    rendered' = [n |-> rendered.n + 1, key |-> key, data |-> data,
                                 author |-> message.author.id,
                                 template |-> responces[key][index],
                                 outcome |-> "returned",
                                 text |-> responder(key, responces[key][index],
                                                    message, data)]
           ELSE rendered' = [n |-> rendered.n + 1, key |-> key, data |-> data,
                             author |-> message.author.id,
                             template |-> <<>>, outcome |-> "raised",
                             text |-> <<>>]
    /\ UNCHANGED <<tables, globals, interaction, responces, textVars>>

\* no responder has been called directly
NotCalled ==
    [n |-> 0, key |-> "", data |-> <<>>, author |-> "", template |-> <<>>,
     outcome |-> "none", text |-> <<>>]

\* before any interaction and any direct call; nothing is defined on the
\* global object and no handler directory exists
NoInteraction ==
    /\ tables = NoTables
    /\ globals = {}
    /\ interaction = Idle
    /\ rendered = NotCalled

-----------------------------------------------------------------------------
(* Specifications *)

\* the value of `last` before the first event
NoDispatch ==
    [message |-> NoMessage, now |-> 0, result |-> Returned,
     responses |-> <<>>, template |-> 1, text |-> <<>>,
     handlerCalls |-> 0, handlerArgs |-> <<>>, behaviour |-> "",
     caught |-> FALSE, raised |-> FALSE, promise |-> "none",
     before |-> [cooldowns |-> Collection, timers |-> EmptyBag,
                 blockedUsers |-> Undefined, commands |-> Collection]]

\* no event has been delivered yet
NoEvent ==
    /\ clock = 0
    /\ nEvents = 0
    /\ inflight = 0
    /\ last = NoDispatch
    /\ NoInteraction

\* the state after the constructor and __ready have run
Ready ==
    /\ responces = ShortCatalog
    /\ directory = [read |-> TRUE, found |-> TRUE, files |-> CommandFiles]
    /\ commands = __loadCommands(directory.files)
    /\ cooldowns = Collection
    /\ timers = EmptyBag
    /\ NoEvent

Init ==
    /\ prefixes = Undefined
    /\ owners = <<"u1">>
    /\ blockedUsers = Undefined
    /\ Ready

Next ==
    \/ Receive
    \/ TimerFires
    \/ Tick
    \/ HandlerResolves
    \/ HandlerRejects
    \/ EarlierSettles

\* events, timers, the clock and handler promises interleaved
Spec == Init /\ [][Next]_vars

NextLive ==
    \/ ReceiveEarly
    \/ TimerFires
    \/ Elapse

\* events, then time and timers alone.  Time does not stop, and the event
\* loop runs the callback of every timer whose delay has elapsed.
SpecLive == Init /\ [][NextLive]_vars /\ WF_vars(Elapse) /\ WF_vars(TimerFires)

InitGuards ==
    /\ prefixes = Undefined
    /\ owners \in {Undefined, <<>>, <<"u1">>}
    /\ blockedUsers \in {Undefined, <<"u2">>}
    /\ Ready

NextGuards == ReceiveGuarded

\* the guard chain on every combination of guard inputs
SpecGuards == InitGuards /\ [][NextGuards]_vars

InitParse ==
    /\ prefixes \in PrefixLists
    /\ owners = <<"u1">>
    /\ blockedUsers = Undefined
    /\ Ready

NextParse == ReceiveText

\* prefix selection and tokenization on every raw text
SpecParse == InitParse /\ [][NextParse]_vars

\* the state after the constructor: client.commands does not exist before
\* __ready, and no event is delivered before it
InitLoad ==
    /\ prefixes = Undefined
    /\ owners = <<"u1">>
    /\ blockedUsers = Undefined
    /\ responces = ShortCatalog
    /\ directory = [read |-> FALSE, found |-> FALSE, files |-> <<>>]
    /\ commands = Collection
    /\ cooldowns = Collection
    /\ timers = EmptyBag
    /\ NoEvent

NextLoad ==
    \/ __ready
    \/ ReceiveLoaded

\* registration of every directory of command files, then one event
SpecLoad == InitLoad /\ [][NextLoad]_vars

InitRender ==
    /\ prefixes \in { Undefined, << <<"$">> >> }
    /\ owners = <<"u1">>
    /\ blockedUsers = Undefined
    /\ \E unknown \in UnknownTemplates :
           responces = Catalog(unknown, << PhCooldown \o PhS >>)
    /\ directory = [read |-> TRUE, found |-> TRUE, files |-> CommandFiles]
    /\ commands = __loadCommands(directory.files)
    /\ cooldowns = Collection
    /\ timers = EmptyBag
    /\ NoEvent

NextRender == ReceiveRendered

\* the text of the command_unknown response for every catalog and token
SpecRender == InitRender /\ [][NextRender]_vars

\* the state some time after u1 was authorized for w at time 0: the record
\* is stored, the eviction timer pending, and time_left of the cooldown left.
\* The catalog shows the remaining time in one template and the plural
\* ending in another.
InitFormat ==
    /\ prefixes = Undefined
    /\ owners = <<"u1">>
    /\ blockedUsers = <<>>
    /\ responces = Catalog(<< PhCommand >>, << PhCooldown, PhS >>)
    /\ directory = [read |-> TRUE, found |-> TRUE, files |-> WaitFiles]
    /\ commands = __loadCommands(directory.files)
    /\ cooldowns = set(Collection, <<"w">>, set(Collection, "u1", 0))
    /\ timers = SetToBag({evictionTimer(<<"w">>, "u1", 0)})
    /\ \E time_left \in Durations : clock = MaxCooldown * 1000 - time_left
    /\ nEvents = 0
    /\ inflight = 0
    /\ last = NoDispatch
    /\ NoInteraction

NextFormat == ReceiveWaiting

\* the cooldown response for every remaining time
SpecFormat == InitFormat /\ [][NextFormat]_vars

InitContext ==
    /\ prefixes = Undefined
    /\ owners = <<"u1">>
    /\ blockedUsers = Undefined
    /\ responces = ShortCatalog
    /\ directory = [read |-> TRUE, found |-> TRUE, files |-> ContextFiles]
    /\ commands = __loadCommands(directory.files)
    /\ cooldowns = Collection
    /\ timers = EmptyBag
    /\ NoEvent

NextContext == ReceiveContext

\* commands with context flags invoked in every kind of channel
SpecContext == InitContext /\ [][NextContext]_vars

InitBlock ==
    /\ prefixes = Undefined
    /\ owners = <<"u1">>
    /\ blockedUsers = Undefined
    /\ Ready

NextBlock ==
    \/ ReceiveBlock
    \/ BlockedUsersAssigned
    \/ CommandListsAssigned

\* events interleaved with assignments to the block lists
SpecBlock == InitBlock /\ [][NextBlock]_vars

\* the state after __ready for every outcome of the registration of
\* handlers, in a process with and without the names msg and embed on its
\* global object
InitInteract ==
    /\ prefixes = Undefined
    /\ owners = <<"u1">>
    /\ blockedUsers = Undefined
    /\ responces = ShortCatalog
    /\ directory = [read |-> TRUE, found |-> TRUE, files |-> CommandFiles]
    /\ commands = __loadCommands(directory.files)
    /\ cooldowns = Collection
    /\ timers = EmptyBag
    /\ clock = 0
    /\ nEvents = 0
    /\ inflight = 0
    /\ last = NoDispatch
    /\ tables \in HandlerTables
    /\ globals \in SUBSET {"msg", "embed"}
    /\ interaction = Idle
    /\ rendered = NotCalled

InitCatalog ==
    /\ prefixes = Undefined
    /\ owners = <<"u1">>
    /\ blockedUsers = Undefined
    /\ responces \in DispatchCatalogs
    /\ directory = [read |-> TRUE, found |-> TRUE, files |-> CommandFiles]
    /\ commands = __loadCommands(directory.files)
    /\ cooldowns = Collection
    /\ timers = EmptyBag
    /\ NoEvent

NextCatalog == ReceiveUnrendered

\* events dispatched by bots with complete and incomplete catalogs
SpecCatalog == InitCatalog /\ [][NextCatalog]_vars

\* a bot with one of the catalogs, ready
InitResponder ==
    /\ prefixes = Undefined
    /\ owners = <<"u1">>
    /\ blockedUsers = Undefined
    /\ responces \in ResponderCatalogs
    /\ directory = [read |-> TRUE, found |-> TRUE, files |-> CommandFiles]
    /\ commands = __loadCommands(directory.files)
    /\ cooldowns = Collection
    /\ timers = EmptyBag
    /\ NoEvent

NextResponder == CallResponder

\* direct calls of the responders with every catalog and every data
SpecResponder == InitResponder /\ [][NextResponder]_vars

NextInteract ==
    \/ __interaction
    \/ AwaitedResolves
    \/ AwaitedRejects

\* interactions of every kind with handlers of every behaviour
SpecInteract == InitInteract /\ [][NextInteract]_vars

-----------------------------------------------------------------------------
(* Vocabulary of the properties: the last delivered event *)

\* an event has been delivered, so `last` describes a dispatch
Delivered == nEvents > 0

\* the dispatch got past the early exits: a prefix matched and the command
\* token is not empty
Parsed == Delivered /\ last.result.command_name # <<>>

Token == last.result.command_name

Author == last.message.author.id

\* the token is the name of a registered command
Known == Token \in DOMAIN commands

TokenCommand == commands[Token]

\* the handler was invoked
Authorized == last.handlerCalls = 1

\* exactly one response was sent, with this catalog key, and no handler ran
RejectedWith(key) == last.handlerCalls = 0 /\ last.responses = <<key>>

\* the event was dropped at one of the bare returns of lines 485-496
Ignored == last.result.exit = "return"

CooldownSeconds(command) == IF command.cooldown = 0 THEN 1 ELSE command.cooldown

\* the authorizations of (name, id) that were on record before the last event:
\* each authorization schedules its eviction timer, and the timer stays pending
\* at least until `at` plus the cooldown has elapsed
AuthorizationsBefore(name, id) ==
    { timer \in BagToSet(last.before.timers) : timer.name = name /\ timer.id = id }

\* the eight guards, each on its own, for the last event
GuardFails(kind) ==
    CASE kind = "Unknown" -> ~Known
      [] kind = "Blocked" ->
            /\ Known
            /\ globallyBlocked(Author) \/ Author \in TokenCommand.blockedUsers
            /\ Author \notin TokenCommand.unblockedUsers
      [] kind = "Cooldown" ->
            /\ Known
            /\ has(last.before.cooldowns, Token)
            /\ has(last.before.cooldowns[Token], Author)
            /\ last.now < last.before.cooldowns[Token][Author]
                            + CooldownSeconds(TokenCommand) * 1000
      [] kind = "WrongContext" ->
            /\ Known
            /\ \/ TokenCommand.guildOnly /\ last.message.channel.type # "text"
               \/ TokenCommand.dmsOnly /\ last.message.channel.type # "dm"
      [] kind = "OwnersOnly" ->
            Known /\ TokenCommand.ownersOnly /\ ~isOwner(Author)
      [] kind = "MissingUserPermission" ->
            /\ Known
            /\ TokenCommand.permissions.given
            /\ permsRefused(last.message.channel.authorPerms, TokenCommand.permissions)
      [] kind = "MissingBotPermission" ->
            /\ Known
            /\ TokenCommand.botPermissions.given
            /\ permsRefused(last.message.channel.botPerms, TokenCommand.botPermissions)
      [] kind = "UsageMismatch" ->
            /\ Known
            /\ TokenCommand.args # 0
            /\ TokenCommand.args # Len(last.result.args)

GuardOrder ==
    <<"Unknown", "Blocked", "Cooldown", "WrongContext", "OwnersOnly",
      "MissingUserPermission", "MissingBotPermission", "UsageMismatch">>

\* the rejection kind a catalog key renders
KindOf(key) ==
    CASE key = "command_unknown" -> "Unknown"
      [] key = "command_blocked" -> "Blocked"
      [] key = "command_cooldown" -> "Cooldown"
      [] key = "command_guild_only" -> "WrongContext"
      [] key = "command_dms_only" -> "WrongContext"
      [] key = "command_owners_only" -> "OwnersOnly"
      [] key = "command_no_permission" -> "MissingUserPermission"
      [] key = "command_no_bot_permission" -> "MissingBotPermission"
      [] key = "command_incorrect_usage" -> "UsageMismatch"
      [] OTHER -> "Error"

FailingGuards == { i \in 1..Len(GuardOrder) : GuardFails(GuardOrder[i]) }

FirstFailing == CHOOSE i \in FailingGuards : \A j \in FailingGuards : i <= j

\* the guards before position i all pass
EarlierPass(i) == \A j \in 1..(i - 1) : ~GuardFails(GuardOrder[j])

-----------------------------------------------------------------------------
(* Properties *)

\* C1: for an event with a matching prefix and a non-empty token, the outcome
\* is the rejection of the first failing guard in the order Unknown, Blocked,
\* Cooldown, WrongContext, OwnersOnly, MissingUserPermission,
\* MissingBotPermission, UsageMismatch, and the handler is invoked if and only
\* if no guard fails.
C1_FirstFailingGuardDecides ==
    Parsed =>
        IF FailingGuards = {}
        THEN Authorized
        ELSE /\ last.handlerCalls = 0
             /\ Len(last.responses) = 1
             /\ KindOf(last.responses[1]) = GuardOrder[FirstFailing]

C3_HandlerFailureCaught ==
    /\ Delivered
    /\ last.handlerCalls = 1
    /\ last.behaviour = "throws" \/ last.promise = "rejected"
    => /\ last.caught
       /\ last.responses = <<"command_error">>

\* C4: once (c, u) was authorized at time t, an invocation of c by u at a
\* time strictly between t and t + cooldownSeconds(c) is rejected with
\* Cooldown and a positive remaining time.
C4_CooldownEnforced ==
    Parsed /\ Known =>
        \A timer \in AuthorizationsBefore(Token, Author) :
            /\ timer.at < last.now
            /\ last.now < timer.at + CooldownSeconds(TokenCommand) * 1000
            => /\ RejectedWith("command_cooldown")
               /\ last.result.time_left > 0

\* C5: an invocation is rejected with Cooldown only while an authorization of
\* the same (command, user) is younger than the command's cooldown; at
\* t + cooldownSeconds and later it is not, fired timer or not.
C5_ExpiredNeverCooldown ==
    Delivered /\ last.responses = <<"command_cooldown">> =>
        \E timer \in AuthorizationsBefore(Token, Author) :
            last.now < timer.at + CooldownSeconds(TokenCommand) * 1000

\* C5 witness: the record of an authorization is still in the bucket (its
\* timer has not fired), the cooldown has elapsed, and the invocation is
\* authorized
C5_ExpiredRecordPassed ==
    /\ Parsed /\ Known /\ Authorized
    /\ has(last.before.cooldowns, Token)
    /\ has(last.before.cooldowns[Token], Author)
    /\ last.now >= last.before.cooldowns[Token][Author]
                     + CooldownSeconds(TokenCommand) * 1000


\* C6 (an execution exists in which a second invocation passes the cooldown
\* guard before the first has written its record) asserts that an
\* interleaving is possible; it is not a property of all behaviours and has
\* no formula here.  In this model lines 523-590 are one step of __message.

\* C7: for an owners-only command that also requires a user permission, an
\* invoker who is no owner and lacks the permission, and whom no earlier guard
\* stops, is rejected with OwnersOnly (so not with MissingUserPermission).
C7_OwnersOnlyBeforePermission ==
    /\ Parsed /\ Known
    /\ TokenCommand.ownersOnly
    /\ TokenCommand.permissions.given
    /\ TokenCommand.permissions.names # <<>>
    /\ ~isOwner(Author)
    /\ \/ last.message.channel.authorPerms = Null
       \/ ~permsHas(last.message.channel.authorPerms, TokenCommand.permissions.names)
    /\ ~GuardFails("Blocked")
    /\ ~GuardFails("Cooldown")
    /\ ~GuardFails("WrongContext")
    => RejectedWith("command_owners_only")

\* C8: when the seven earlier guards pass, a command with arity n > 0 is
\* rejected with UsageMismatch for every argument count other than n and
\* authorized for n; a command with arity 0 is authorized for every count.
C8_ArityChecked ==
    Parsed /\ Known /\ EarlierPass(8) =>
        IF TokenCommand.args # 0 /\ Len(last.result.args) # TokenCommand.args
        THEN RejectedWith("command_incorrect_usage")
        ELSE Authorized

\* C8 witness: a command of arity 0 is invoked with arguments and authorized
C8_UncheckedArityAuthorized ==
    /\ Parsed /\ Known /\ EarlierPass(8)
    /\ TokenCommand.args = 0
    /\ Len(last.result.args) > 0
    /\ Authorized

\* the positions of the configured prefixes that are a prefix of the text
MatchingPrefixes ==
    { i \in 1..Len(prefixList) : startsWith(last.message.content, prefixList[i]) }

FirstMatching ==
    prefixList[CHOOSE i \in MatchingPrefixes : \A j \in MatchingPrefixes : i <= j]

LastMatching ==
    prefixList[CHOOSE i \in MatchingPrefixes : \A j \in MatchingPrefixes : i >= j]

\* nothing was invoked and nothing was sent
NothingHappened == last.handlerCalls = 0 /\ last.responses = <<>>

\* the command token when the text of the last message is parsed with prefix p
TokenAfter(p) == toLowerCase(Head(split(trim(slice(last.message.content, Len(p))))))

\* dispatch went on with prefix p and the token that follows it
ParsedWith(p) ==
    /\ last.result.prefix = p
    /\ last.result.command_name = TokenAfter(p)
    /\ ~NothingHappened

\* what parsing with prefix p shows: nothing when no token follows p,
\* otherwise a dispatch of that token
AsParsedWith(p) == IF TokenAfter(p) = <<>> THEN NothingHappened ELSE ParsedWith(p)

\* C9 as stated: the first configured prefix that is a prefix of the text is
\* the one used for parsing; when none matches, nothing happens.
C9_FirstPrefixWins ==
    Delivered /\ ~last.message.author.bot /\ ~last.message.webhookID =>
        IF MatchingPrefixes = {}
        THEN NothingHappened
        ELSE AsParsedWith(FirstMatching)

\* C9, amended: the LAST configured prefix that is a prefix of the text is
\* the one used for parsing; when none matches, or when that last one is the
\* empty string, nothing happens.
C9_LastPrefixWins ==
    Delivered /\ ~last.message.author.bot /\ ~last.message.webhookID =>
        IF MatchingPrefixes = {} \/ LastMatching = <<>>
        THEN Ignored /\ NothingHappened
        ELSE AsParsedWith(LastMatching)

\* C9 witness: two configured prefixes match, and the handler runs for the
\* text parsed with the later one
C9_LaterPrefixUsed ==
    /\ Delivered
    /\ Cardinality(MatchingPrefixes) > 1
    /\ FirstMatching # LastMatching
    /\ ParsedWith(LastMatching)
    /\ Authorized

\* C10: a token that is an alias of a registered command resolves to that
\* command and is not rejected as Unknown.
C10_AliasResolves ==
    Parsed =>
        \A name \in findByAlias(commands, Token) :
            /\ ~RejectedWith("command_unknown")
            /\ last.result.command = name

\* the command token as written in the message
RawToken ==
    Head(split(trim(slice(last.message.content, Len(last.result.prefix)))))

\* C11: a token that equals a registered name up to letter case resolves to
\* that command, in whatever letter case the name was registered.
C11_CaseInsensitiveResolution ==
    Parsed =>
        \A name \in DOMAIN commands :
            toLowerCase(RawToken) = toLowerCase(name) =>
                /\ ~RejectedWith("command_unknown")
                /\ last.result.command = name

\* the name and the aliases of a command file
NamesOf(file) == {file.name} \cup { file.aliases[i] : i \in 1..Len(file.aliases) }

\* the files of the directory that clash with no file before them
Unclashing ==
    { i \in 1..Len(directory.files) :
        \A j \in 1..(i - 1) :
            NamesOf(directory.files[i]) \cap NamesOf(directory.files[j]) = {} }

\* C12: a file whose name or alias is already taken is refused and leaves the
\* registry as it was: registered commands share no name and no alias, a
\* registered name keeps the first file that brought it, and files that clash
\* with no earlier file are all registered.
C12_DuplicatesRefused ==
    directory.read =>
        /\ \A k1, k2 \in DOMAIN commands :
               k1 # k2 => NamesOf(commands[k1]) \cap NamesOf(commands[k2]) = {}
        /\ \A k \in DOMAIN commands :
               \E i \in 1..Len(directory.files) :
                   /\ commands[k] = directory.files[i]
                   /\ \A j \in 1..(i - 1) : directory.files[j].name # k
        /\ \A i \in Unclashing :
               /\ directory.files[i].name \in DOMAIN commands
               /\ commands[directory.files[i].name] = directory.files[i]

\* the author of the last event was on the global block list when the event
\* was dispatched
OnGlobalList ==
    /\ last.before.blockedUsers # Undefined
    /\ \E i \in 1..Len(last.before.blockedUsers) :
           last.before.blockedUsers[i] = Author

Holds(perms, required) == perms # Null /\ permsHas(perms, required.names)

\* C14: when guards 1-5 pass and the command requires user permissions, the
\* invocation is rejected with MissingUserPermission if and only if the
\* author's snapshot lacks the required permissions.
C14_UserPermissionIff ==
    Parsed /\ Known /\ EarlierPass(6) /\ TokenCommand.permissions.given =>
        (RejectedWith("command_no_permission")
            <=> ~Holds(last.message.channel.authorPerms, TokenCommand.permissions))

\* C15: when guards 1-6 pass and the command requires bot permissions, the
\* invocation is rejected with MissingBotPermission if and only if the bot's
\* snapshot lacks the required permissions.
C15_BotPermissionIff ==
    Parsed /\ Known /\ EarlierPass(7) /\ TokenCommand.botPermissions.given =>
        (RejectedWith("command_no_bot_permission")
            <=> ~Holds(last.message.channel.botPerms, TokenCommand.botPermissions))

\* the template with every occurrence of {{command}} replaced by `command`
\* and every occurrence of {{prefix}} by `prefix`, in one pass over the
\* template (`i` is the position reached)
RECURSIVE SubstitutedFrom(_, _, _, _)
SubstitutedFrom(template, i, command, prefix) ==
    IF i > Len(template) THEN <<>>
    ELSE IF startsWith(SubSeq(template, i, Len(template)), PhCommand)
         THEN command \o SubstitutedFrom(template, i + Len(PhCommand), command, prefix)
         ELSE IF startsWith(SubSeq(template, i, Len(template)), PhPrefix)
              THEN prefix \o SubstitutedFrom(template, i + Len(PhPrefix), command, prefix)
              ELSE <<template[i]>> \o SubstitutedFrom(template, i + 1, command, prefix)

\* C16: an unregistered token t after a matching prefix is answered with
\* Unknown, and the text sent is the selected command_unknown template with
\* every {{command}} replaced by exactly t and every {{prefix}} by exactly the
\* matched prefix.
C16_UnknownRendered ==
    Parsed /\ ~Known =>
        /\ RejectedWith("command_unknown")
        /\ last.text = SubstitutedFrom(responces["command_unknown"][last.template], 1,
                                       Token, last.result.prefix)

\* the remaining time of the last event in tenths of a second, rounded to
\* the nearest tenth
RemainingTenths ==
    CHOOSE k \in 0..(10 * MaxCooldown + 10) :
        /\ 100 * k - last.result.time_left < 50
        /\ last.result.time_left - 100 * k < 50

\* k tenths with one decimal
OneDecimal(k) == digits(k \div 10) \o <<".", digit(k % 10)>>

\* str without the leading "0." (a "." is left) and without the trailing ".0"
Trimmed(str) ==
    LET collapsed == IF startsWith(str, <<"0", ".">>) THEN Tail(str) ELSE str
        n == Len(collapsed)
    IN  IF n >= 2 /\ SubSeq(collapsed, n - 1, n) = <<".", "0">>
        THEN SubSeq(collapsed, 1, n - 2)
        ELSE collapsed

\* C17: the text rendered for {{cooldown}} is the remaining time with one
\* decimal, from which only a trailing ".0" is dropped and only a leading
\* "0." collapsed to "."; every other digit stays.
C17_DurationTrimmed ==
    RejectedWith("command_cooldown") /\ last.template = 1 =>
        last.text = Trimmed(OneDecimal(RemainingTenths))

\* the remaining time as the response shows it
Displayed == cooldownData(last.result.time_left, Token).time_left

\* C18: the text rendered for {{s}} is the plural ending of the remaining
\* time rounded to one decimal: empty for 1, "s" for every other count, and
\* so empty exactly when the response shows the duration 1.
C18_PluralOfDisplayed ==
    RejectedWith("command_cooldown") /\ last.template = 2 =>
        /\ last.text = IF RemainingTenths = 10 THEN <<>> ELSE <<"s">>
        /\ last.text = <<>> <=> Displayed = <<"1">>

\* the positions of str where a piece begins: a character that is no
\* separator, at the start or after a separator
Starts(str, seps) ==
    { i \in 1..Len(str) : str[i] \notin seps /\ (i = 1 \/ str[i - 1] \in seps) }

\* the piece of str that begins at position i
PieceAt(str, seps, i) ==
    LET end == CHOOSE j \in i..Len(str) :
                   /\ \A k \in i..j : str[k] \notin seps
                   /\ j = Len(str) \/ str[j + 1] \in seps
    IN  SubSeq(str, i, end)

\* the pieces of str between maximal runs of separator characters, in order
Pieces(str, seps) ==
    LET starts == Starts(str, seps)
    IN  [n \in 1..Cardinality(starts) |->
            PieceAt(str, seps,
                    CHOOSE i \in starts : Cardinality({ j \in starts : j < i }) = n - 1)]

\* the text of the last message after the prefix it was parsed with
AfterPrefix == slice(last.message.content, Len(last.result.prefix))

\* the last event was dispatched with these pieces: the first, case-folded,
\* as the command token and the others as the arguments
TokenizedAs(pieces) ==
    IF pieces = <<>>
    THEN NothingHappened
    ELSE /\ ~NothingHappened
         /\ Token = toLowerCase(Head(pieces))
         /\ last.result.args = Tail(pieces)

\* C19 as stated: the command token and the arguments are the pieces of the
\* text after the prefix between maximal runs of whitespace of any kind.
C19_SplitOnWhitespace ==
    Delivered /\ last.result.prefix # False => TokenizedAs(Pieces(AfterPrefix, WhiteSpace))

\* C19, amended: whitespace of any kind is trimmed from both ends of the text
\* after the prefix, and the command token and the arguments are the pieces
\* of what is left between maximal runs of the space character; a tab or a
\* newline inside separates nothing.
C19_SplitOnSpaces ==
    Delivered /\ last.result.prefix # False => TokenizedAs(Pieces(trim(AfterPrefix), {" "}))

\* C19 witness: the handler runs with an argument that holds a tab or a newline
C19_WhitespaceInsideArgument ==
    /\ Authorized
    /\ \E i \in 1..Len(last.result.args) :
           \E k \in 1..Len(last.result.args[i]) :
               last.result.args[i][k] \in {"\t", "\n"}

\* C20: the handler of an authorized event is invoked with exactly the
\* tokens that follow the command token, in their order and letter case.
C20_HandlerGetsArguments ==
    Authorized => last.handlerArgs = Tail(Pieces(trim(AfterPrefix), {" "}))

\* C20 witness: the handler runs with two arguments, one of them with a
\* capital letter
C20_CapitalArgumentPassed ==
    /\ Authorized
    /\ Len(last.handlerArgs) = 2
    /\ \E i \in 1..2 : last.handlerArgs[i] \in { <<"X">>, <<"Y">> }

\* the handler of the last interaction was invoked and failed: it threw, or
\* the promise it returned rejected, and the catch block has run
HandlerFailed ==
    /\ interaction.stage = "done"
    /\ interaction.invoked # <<>>
    /\ interaction.logged = 1

\* C21: when the handler of a command interaction fails, exactly one error
\* reply is sent to the interaction, ephemeral, and the dispatch completes
\* without raising.
C21_CommandFailureReplied ==
    interaction.kind = "command" /\ HandlerFailed =>
        /\ interaction.replies = <<[key |-> "command_error", ephemeral |-> TRUE]>>
        /\ interaction.outcome = "fulfilled"

\* C22: when the handler of a button or select interaction fails, the error
\* is logged and nothing else: no reply is sent and the dispatch completes
\* without raising.
C22_ComponentFailureLogged ==
    interaction.kind \in {"button", "select"} /\ HandlerFailed =>
        /\ interaction.replies = <<>>
        /\ interaction.outcome = "fulfilled"
        /\ interaction.error = "none"

\* C22 witness: the promise of a select handler rejected after the dispatch
\* had been suspended on it
C22_SelectRejectionLogged ==
    /\ interaction.kind = "select"
    /\ interaction.behaviour = "promise"
    /\ HandlerFailed

\* the identifier of the last interaction has no handler in the table of
\* its kind
Unregistered ==
    /\ interaction.n > 0
    /\ interaction.kind # "other"
    /\ ~has(tables[tableOf(interaction.kind)].entries, interaction.id)

\* C23: an interaction whose identifier has no registered handler does
\* nothing: no handler, no reply, no error raised or logged.
C23_UnregisteredIgnored ==
    Unregistered =>
        /\ interaction.invoked = <<>>
        /\ interaction.replies = <<>>
        /\ interaction.logged = 0
        /\ interaction.outcome = "fulfilled"

\* C24: an interaction invokes at most one handler, the one registered
\* under its identifier in the table of its own kind, and an interaction of
\* none of the three kinds invokes none.
C24_OwnTableOnly ==
    /\ Len(interaction.invoked) <= 1
    /\ interaction.invoked # <<>> =>
          /\ interaction.kind # "other"
          /\ interaction.invoked[1] =
                 Handler(CASE interaction.kind = "command" -> "slash"
                           [] interaction.kind = "button" -> "buttons"
                           [] interaction.kind = "select" -> "selects",
                         interaction.id)

\* C24 witness: a select interaction invoked the select handler of an
\* identifier that all three tables hold
C24_SharedIdentifier ==
    /\ interaction.kind = "select"
    /\ interaction.invoked = <<Handler("selects", "a")>>
    /\ \A name \in TableNames : has(tables[name].entries, "a")

\* C25: a responder never fails: whatever the catalog holds for its key, it
\* returns and raises no error.
C25_RenderingNeverFails ==
    rendered.n > 0 => rendered.outcome = "returned"

\* the placeholders the responder of `key` recognizes, each with the value
\* the last call supplied for it
Placeholders(key) ==
    IF key = "command_unknown"
    THEN { <<PhCommand, rendered.data.command_name>>,
           <<PhPrefix, rendered.data.prefix>> }
    ELSE { <<PhS, rendered.data.s>>,
           <<PhCooldown, rendered.data.time_left>>,
           <<PhAuthor, username(rendered.author)>>,
           <<PhCommand, rendered.data.command_name>> }

\* the pairs whose placeholder stands at position i of the template
StandingAt(template, i, pairs) ==
    { pair \in pairs :
        /\ i + Len(pair[1]) - 1 <= Len(template)
        /\ SubSeq(template, i, i + Len(pair[1]) - 1) = pair[1] }

\* the template from position i on, with every placeholder of `pairs`
\* replaced by its value and everything else kept
RECURSIVE FilledFrom(_, _, _)
FilledFrom(template, i, pairs) ==
    IF i > Len(template) THEN <<>>
    ELSE IF StandingAt(template, i, pairs) = {}
         THEN <<template[i]>> \o FilledFrom(template, i + 1, pairs)
         ELSE LET pair == CHOOSE one \in StandingAt(template, i, pairs) : TRUE
              IN  pair[2] \o FilledFrom(template, i + Len(pair[1]), pairs)

\* C26: in the text a responder returns, every placeholder with a value is
\* replaced by the value and every placeholder without a value is left
\* verbatim.
C26_MissingLeftVerbatim ==
    rendered.outcome = "returned" =>
        rendered.text =
            FilledFrom(rendered.template, 1,
                       { pair \in Placeholders(rendered.key) : pair[2] # Undefined })

\* the cooldown record of (name, id) in a tracker, if there is one
RecordOf(tracker, name, id) ==
    IF has(tracker, name) /\ has(tracker[name], id) THEN {tracker[name][id]} ELSE {}

\* the step dispatches an event and leaves the registry and the cooldown
\* records of every other (command, user) as they were
OthersKept ==
    nEvents' = nEvents + 1 =>
        /\ commands' = commands
        /\ \A name \in DOMAIN commands, id \in Users :
               name # last'.result.command \/ id # last'.message.author.id
               => RecordOf(cooldowns', name, id) = RecordOf(cooldowns, name, id)

\* C27: no dispatch of a text event lets an exception out, changes the
\* command registry, or changes the cooldown record of another
\* (command, user), whether the handler or the rendering of a response fails.
C27_DispatchContained ==
    [][(nEvents' = nEvents + 1 => ~last'.raised) /\ OthersKept]_vars

\* the cooldown tracker holds no record
NoRecords ==
    \A name \in DOMAIN commands, id \in Users : RecordOf(cooldowns, name, id) = {}

\* every record in the tracker has an eviction timer pending for its
\* (command, user)
RecordsTimed ==
    \A name \in DOMAIN commands, id \in Users :
        RecordOf(cooldowns, name, id) # {} =>
            \E timer \in BagToSet(timers) : timer.name = name /\ timer.id = id

\* C28: every cooldown record has an eviction timer pending and is
\* eventually removed, and once the events have stopped the tracker ends up
\* holding no record at all.
C28_RecordsEvicted ==
    /\ []RecordsTimed
    /\ \A name \in {<<"h">>, <<"k">>}, id \in Users :
           (RecordOf(cooldowns, name, id) # {}) ~> (RecordOf(cooldowns, name, id) = {})
    /\ <>[]NoRecords

\* C28 witness: the last event was authorized, its record written, and the
\* timers have emptied the tracker since
C28_EvictedAfterAuthorization ==
    /\ Authorized
    /\ has(cooldowns, last.result.command)
    /\ timers = EmptyBag
    /\ NoRecords

\* C29: the handler of an event runs only when none of the eight guards
\* fails for the event, and by then the cooldown record of (command, user)
\* holds the time of the event; an event with a failing guard ends without
\* its handler; and every event ends with its handler invoked, with a
\* response sent, or silently ignored.
C29_HandlerAfterGuardsAndRecord ==
    /\ Authorized =>
          /\ FailingGuards = {}
          /\ RecordOf(cooldowns, last.result.command, Author) = {last.now}
    /\ Parsed /\ FailingGuards # {} => last.handlerCalls = 0
    /\ Delivered => Authorized \/ Len(last.responses) = 1 \/ Ignored

\* C29 witness: the command with every guard configured was authorized and
\* its handler threw: the record stands
C29_GuardedCommandRecorded ==
    /\ Authorized
    /\ Token = <<"k">>
    /\ last.behaviour = "throws"
    /\ RecordOf(cooldowns, <<"k">>, Author) = {last.now}

\* C30: the dispatch of an event returns while the promise of its handler
\* is still pending, and an event dispatched while the handler of the event
\* before it is pending leaves that handler pending: one more is in flight.
C30_DispatchDoesNotWait ==
    [][nEvents' = nEvents + 1 =>
          /\ last'.behaviour = "promise" => last'.promise = "pending"
          /\ last.promise = "pending" => inflight' = inflight + 1]_vars

\* C30 witness: an event was dispatched and authorized while the handler of
\* an earlier event was still pending, and its own handler is pending too
C30_TwoHandlersInFlight ==
    /\ Authorized
    /\ last.promise = "pending"
    /\ inflight >= 1

\* what the response rendered from `key` answers, for the last event
Answers(key) ==
    CASE key = "command_error" ->
            last.handlerCalls = 1 /\ last.behaviour = "throws"
      [] key = "command_guild_only" ->
            /\ last.handlerCalls = 0 /\ Known /\ TokenCommand.guildOnly
            /\ last.message.channel.type # "text"
      [] key = "command_dms_only" ->
            /\ last.handlerCalls = 0 /\ Known /\ TokenCommand.dmsOnly
            /\ last.message.channel.type # "dm"
      [] OTHER -> last.handlerCalls = 0 /\ GuardFails(KindOf(key))

\* C31: every response is rendered from the catalog key of the rejection
\* it answers, command_error for a failing handler and for nothing else,
\* with one of the templates listed under that key.
C31_RejectionUsesOwnKey ==
    Delivered /\ last.responses # <<>> =>
        /\ Len(last.responses) = 1
        /\ Answers(last.responses[1])
        /\ last.template \in 1..Len(responces[last.responses[1]])

\* C32: the dispatch of an event that ends without its handler, ignored or
\* rejected, leaves every cooldown record and the pending eviction timers
\* as they were.
C32_RejectionLeavesRecords ==
    [][nEvents' = nEvents + 1 /\ last'.handlerCalls = 0 =>
          /\ \A name \in DOMAIN commands, id \in Users :
                 RecordOf(cooldowns', name, id) = RecordOf(cooldowns, name, id)
          /\ timers' = timers]_vars

\* C32 witness: an event got past the cooldown guard, where the bucket of
\* its command is created, and was rejected by a later guard while the
\* record of another user was stored
C32_RejectedPastCooldownGuard ==
    /\ RejectedWith("command_incorrect_usage")
    /\ has(cooldowns, Token)
    /\ RecordOf(cooldowns, Token, Author) = {}
    /\ \E id \in Users : RecordOf(cooldowns, Token, id) # {}

\* C33: no step removes a cooldown record before the time recorded in it
\* plus the cooldown of its command has elapsed.
C33_NoEarlyEviction ==
    [][\A name \in DOMAIN commands, id \in Users :
          /\ RecordOf(cooldowns, name, id) # {}
          /\ RecordOf(cooldowns', name, id) = {}
          => clock >= cooldowns[name][id] + CooldownSeconds(commands[name]) * 1000]_vars

\* the pattern occurs somewhere in the string
Occurs(pattern, str) ==
    \E i \in 1..Len(str) :
        /\ i + Len(pattern) - 1 <= Len(str)
        /\ SubSeq(str, i, i + Len(pattern) - 1) = pattern

\* C34: a command token that contains a placeholder of command_unknown is
\* inserted as it is: the text of the response is the template with the
\* token at each {{command}} and the prefix at each {{prefix}}, and nothing
\* inside the inserted token is replaced in turn.
C34_ValuesInsertedLiterally ==
    /\ RejectedWith("command_unknown")
    /\ Occurs(PhPrefix, Token) \/ Occurs(PhCommand, Token)
    => last.text = SubstitutedFrom(responces["command_unknown"][last.template], 1,
                                   Token, last.result.prefix)

\* the step dispatches an event for the command and the user of the event
\* before it, whose handler was invoked and threw, within the cooldown of
\* that command
AgainAfterThrow ==
    /\ nEvents' = nEvents + 1
    /\ last.handlerCalls = 1
    /\ last.behaviour = "throws"
    /\ last'.message.author.id = last.message.author.id
    /\ last'.result.command_name = last.result.command
    /\ last'.now < last.now + CooldownSeconds(commands[last.result.command]) * 1000

\* C35: the record written before a handler that throws stays, with its
\* timer: the dispatch that ends in command_error leaves the record and the
\* timer of the event in place, and the next invocation by the same user
\* within the cooldown is rejected with Cooldown.
C35_RecordSurvivesThrow ==
    [][/\ nEvents' = nEvents + 1 /\ last'.handlerCalls = 1 /\ last'.behaviour = "throws"
          => /\ last'.responses = <<"command_error">>
             /\ RecordOf(cooldowns', last'.result.command, last'.message.author.id)
                    = {last'.now}
             /\ evictionTimer(last'.result.command, last'.message.author.id, last'.now)
                    \in BagToSet(timers')
       /\ AgainAfterThrow
          => last'.handlerCalls = 0 /\ last'.responses = <<"command_cooldown">>]_vars

\* the text of the last message is the prefix it is parsed with, the last
\* entry of the list the text starts with, followed by nothing but spaces
OnlyPrefix ==
    \E i \in 1..Len(prefixList) :
        /\ startsWith(last.message.content, prefixList[i])
        /\ \A j \in (i + 1)..Len(prefixList) :
               ~startsWith(last.message.content, prefixList[j])
        /\ \A k \in (Len(prefixList[i]) + 1)..Len(last.message.content) :
               last.message.content[k] = " "

\* C36: a message of a bot, a message of a webhook and a message that is a
\* prefix followed by spaces only invoke no handler, send no response, not
\* command_unknown either, and leave the cooldown tracker and the timers
\* as they were.
C36_SilentExits ==
    /\ Delivered
    /\ last.message.author.bot \/ last.message.webhookID \/ OnlyPrefix
    => /\ last.handlerCalls = 0
       /\ last.responses = <<>>
       /\ cooldowns = last.before.cooldowns
       /\ timers = last.before.timers

\* C36 witness: a webhook that is no bot sent a registered command after the
\* prefix, once a record was stored, and nothing happened
C36_WebhookIgnored ==
    /\ nEvents = 2
    /\ last.message.webhookID
    /\ ~last.message.author.bot
    /\ last.message.content = <<"!", "h">>
    /\ last.handlerCalls = 0
    /\ last.before.cooldowns # Collection

\* C37: a prefixed message whose token is no registered command name is
\* answered with command_unknown once and nothing else, also when the
\* commands directory could not be read and no registry was populated.
C37_UnregisteredIsUnknown ==
    Parsed /\ ~Known
    => /\ RejectedWith("command_unknown")
       /\ ~last.caught
       /\ ~last.raised

RecordBefore == RecordOf(cooldowns, last'.result.command, last'.message.author.id)

CooldownMs == CooldownSeconds(commands[last'.result.command]) * 1000

\* C39: the cooldown guard and the eviction delay use the declared cooldown
\* in seconds, and one second when none or 0 is declared: an invocation is
\* rejected with the time left of that duration while a record is younger
\* than it, an authorization needs every record to be at least that old, and
\* it stores a record whose eviction timer is due that long after the
\* invocation.
C39_DeclaredOrOneSecond ==
    [][nEvents' = nEvents + 1 /\ last'.result.command \in DOMAIN commands
       => /\ last'.responses = <<"command_cooldown">> /\ last'.handlerCalls = 0
             => \E at \in RecordBefore :
                    /\ last'.now < at + CooldownMs
                    /\ last'.result.time_left = at + CooldownMs - last'.now
          /\ last'.handlerCalls = 1
             => /\ \A at \in RecordBefore : last'.now >= at + CooldownMs
                /\ RecordOf(cooldowns', last'.result.command,
                            last'.message.author.id) = {last'.now}
                /\ \E timer \in BagToSet(timers') :
                       /\ timer.name = last'.result.command
                       /\ timer.id = last'.message.author.id
                       /\ timer.at = last'.now
                       /\ timer.due = last'.now + CooldownMs]_vars

\* C39 witness: a command that declares no cooldown was invoked again by the
\* same user half a second after its record was stored, and rejected with
\* half a second left
C39_DefaultCooldownEnforced ==
    /\ Parsed /\ Known
    /\ TokenCommand.cooldown = 0
    /\ RejectedWith("command_cooldown")
    /\ last.result.time_left = 500
    /\ RecordOf(last.before.cooldowns, last.result.command, Author) = {last.now - 500}

=============================================================================
